---- MODULE Spec2Model ----
(***************************************************************************)
(* Verification model of the file renamers of this repository:             *)
(*   renamer_dnd.py          PyQt5 drag-and-drop renamer  (variant "qt5")  *)
(*   renamer_dnd_Qt6.py      PyQt6 renamer with preview   (variant "qt6")  *)
(*   rename_pbr_textures.py  directory-walking batch script ("batch")      *)
(* _bak/renamer_dnd.py has the handlers of renamer_dnd.py line for line.   *)
(*                                                                         *)
(* A string is a sequence of one-character strings, so that Python's       *)
(* str.replace, str.strip, `in`, str.endswith and the os.path functions    *)
(* are computed character by character.  Paths are POSIX style ("/").      *)
(***************************************************************************)
EXTENDS Integers, Sequences, FiniteSets, TLC

VARIABLES
    variant,           \* which program runs: "qt5", "qt6" or "batch"
    os_name,           \* os.name of the platform: "posix" or "nt"
    fs_files,          \* the regular files of the filesystem (set of paths)
    files,             \* GUI: self.files / self.drop_area.files
    items,             \* GUI: the rows of the QListWidget drop_area
    file_count_label,  \* GUI: the number shown in "Files to rename: N"
    pattern_input,     \* GUI: text of the pattern QLineEdit
    replace_input,     \* GUI: text of the replacement QLineEdit
    preview_area,      \* qt6: the lines of the preview QTextEdit
    log_output,        \* GUI: the lines the latest rename_files call appended
                       \*      to the log pane (no handler reads or removes
                       \*      the lines before them)
    patterns,          \* batch: the rule mapping, in insertion order
    scan_desc,         \* batch: whether directories list their files in
                       \*        descending (TRUE) or ascending name order
    log,               \* batch: the per-file lines of LOG_FILE
    rename_count,      \* batch: "Total files renamed"
    skipped_count,     \* batch: "Total files skipped"
    calls,             \* the os.rename calls of the latest rename_files call
    visited,           \* batch: the paths the latest run handed to its
                       \*        loop body, in order
    rerun              \* the candidates of the latest rename_files call that
                       \* the call before it had produced by a rename which
                       \* the rule of the latest call makes too

guiVars == <<files, items, file_count_label, pattern_input, replace_input,
             preview_area, log_output>>
batchVars == <<patterns, scan_desc, log, rename_count, skipped_count,
               visited>>
envVars == <<variant, os_name>>
vars == <<variant, os_name, fs_files, files, items, file_count_label,
          pattern_input, replace_input, preview_area, log_output, patterns,
          scan_desc, log, rename_count, skipped_count, calls, visited,
          rerun>>

(***************************************************************************)
(* Bounds of the model.                                                    *)
(***************************************************************************)
\* most URLs carried by one drop event
MaxUrls == 2

(***************************************************************************)
(* Python str operations.                                                  *)
(***************************************************************************)
\* old in s
Contains(old, s) ==
    \E i \in 0..(Len(s) - Len(old)) : SubSeq(s, i + 1, i + Len(old)) = old

\* s.startswith(p), s.endswith(p)
StartsWith(s, p) == Len(p) <= Len(s) /\ SubSeq(s, 1, Len(p)) = p
EndsWith(s, p) ==
    Len(p) <= Len(s) /\ SubSeq(s, Len(s) - Len(p) + 1, Len(s)) = p

RECURSIVE Interleave(_, _)
\* "".join(new + c for c in s): the part of s.replace("", new) before the
\* trailing new
Interleave(s, new) ==
    IF s = <<>> THEN <<>>
    ELSE new \o <<Head(s)>> \o Interleave(Tail(s), new)

RECURSIVE ReplaceFirst(_, _, _)
\* s.replace(old, new, 1) for a non-empty old
ReplaceFirst(s, old, new) ==
    IF Len(s) < Len(old) THEN s
    ELSE IF SubSeq(s, 1, Len(old)) = old
         THEN new \o SubSeq(s, Len(old) + 1, Len(s))
         ELSE <<Head(s)>> \o ReplaceFirst(Tail(s), old, new)

RECURSIVE Replace(_, _, _)
\* s.replace(old, new)
Replace(s, old, new) ==
    IF old = <<>> THEN Interleave(s, new) \o new
    ELSE IF Len(s) < Len(old) THEN s
    ELSE IF SubSeq(s, 1, Len(old)) = old
         THEN new \o Replace(SubSeq(s, Len(old) + 1, Len(s)), old, new)
         ELSE <<Head(s)>> \o Replace(Tail(s), old, new)

Whitespace == {" "}

RECURSIVE LStrip(_)
LStrip(s) ==
    IF s # <<>> /\ Head(s) \in Whitespace THEN LStrip(Tail(s)) ELSE s

RECURSIVE RStrip(_, _)
\* s.rstrip(chars)
RStrip(s, chars) ==
    IF s # <<>> /\ s[Len(s)] \in chars
    THEN RStrip(SubSeq(s, 1, Len(s) - 1), chars)
    ELSE s

\* s.strip()
Strip(s) == RStrip(LStrip(s), Whitespace)

(***************************************************************************)
(* posixpath.                                                              *)
(***************************************************************************)
Sep == "/"

\* p.rfind("/") + 1
RFindSep(p) ==
    LET at == {i \in 1..Len(p) : p[i] = Sep}
    IN  IF at = {} THEN 0 ELSE CHOOSE i \in at : \A j \in at : j <= i

\* os.path.basename(p)
Basename(p) == SubSeq(p, RFindSep(p) + 1, Len(p))

\* os.path.dirname(p)
Dirname(p) ==
    LET head == SubSeq(p, 1, RFindSep(p))
    IN  IF head # <<>> /\ \E i \in 1..Len(head) : head[i] # Sep
        THEN RStrip(head, {Sep})
        ELSE head

\* os.path.join(a, p)
Join(a, p) ==
    IF StartsWith(p, <<Sep>>) THEN p
    ELSE IF a = <<>> \/ EndsWith(a, <<Sep>>) THEN a \o p
    ELSE a \o <<Sep>> \o p

(***************************************************************************)
(* The filesystem the programs act on.                                     *)
(***************************************************************************)
PNG == <<".", "p", "n", "g">>
TXT == <<".", "t", "x", "t">>

\* the directory the files live in (SOURCE_DIRECTORY of the batch script)
SourceDir == <<"/", "d">>
\* a sub-directory of it
SubDir == <<"/", "d", "/", "a">>
\* the directories that exist; no program of the repository creates one
Dirs == {SourceDir, SubDir}

\* /d/a__b.png, /d/a_b.png and /d/a/c_.txt
FileA == SourceDir \o <<"/", "a", "_", "_", "b">> \o PNG
FileB == SourceDir \o <<"/", "a", "_", "b">> \o PNG
FileC == SubDir \o <<"/", "c", "_">> \o TXT

\* the files on disk when the program starts
InitFiles(v) == IF v = "batch" THEN {FileA, FileB, FileC} ELSE {FileA, FileB}

\* the files another process may delete while the GUI holds them
Removable == {FileA, FileB}

\* os.path.isfile(p)
IsFile(fs, p) == p \in fs

RECURSIVE Collapse(_)
\* the path as the kernel resolves it: repeated separators count as one
Collapse(p) ==
    IF Len(p) < 2 THEN p
    ELSE IF p[1] = Sep /\ p[2] = Sep THEN Collapse(Tail(p))
    ELSE <<Head(p)>> \o Collapse(Tail(p))

\* what os.rename does to an existing destination file: POSIX replaces it
\* silently, Windows raises FileExistsError
ReplacesExisting == os_name = "posix"

\* os.rename(src, dst) on the files fs: the files afterwards, or the error
\* raised
OsRename(fs, src, dst) ==
    LET target == Collapse(dst)
        Fail(e) == [ok |-> FALSE, err |-> e, fs |-> fs]
    IN  IF src \notin fs THEN Fail("FileNotFoundError")
        ELSE IF Basename(target) = <<>> THEN Fail("NotADirectoryError")
        ELSE IF Dirname(target) \notin Dirs THEN Fail("FileNotFoundError")
        ELSE IF target \in Dirs THEN Fail("IsADirectoryError")
        ELSE IF target = src THEN [ok |-> TRUE, err |-> "", fs |-> fs]
        ELSE IF target \in fs
             THEN IF ReplacesExisting
                  THEN [ok |-> TRUE, err |-> "", fs |-> fs \ {src}]
                  ELSE Fail("FileExistsError")
        ELSE [ok |-> TRUE, err |-> "", fs |-> (fs \ {src}) \cup {target}]

(***************************************************************************)
(* Log lines and the record of os.rename calls.                            *)
(***************************************************************************)
\* one line of a log: kind is "Renamed", "Skipped", "Failed", "Summary",
\* "NoFiles" or "EmptyPattern"
Line(kind, old, new, err, n) ==
    [kind |-> kind, old |-> old, new |-> new, err |-> err, n |-> n]

OutcomeKinds == {"Renamed", "Skipped", "Failed"}

\* one os.rename call
Call(src, dst, ok) == [src |-> src, dst |-> dst, ok |-> ok]

Range(s) == {s[i] : i \in 1..Len(s)}

\* the successful renames among made whose result is a candidate again
\* and which new_path, the rename of each source by the current rule, makes
\* too
Rerun(made, cands, new_path) ==
    {[old |-> made[i].src, new |-> made[i].dst] :
        i \in {j \in 1..Len(made) :
                 /\ made[j].ok
                 /\ made[j].dst # made[j].src
                 /\ made[j].dst \in Range(cands)
                 /\ new_path[made[j].src] = made[j].dst}}

(***************************************************************************)
(* The GUI programs.                                                       *)
(***************************************************************************)
IsGui == variant \in {"qt5", "qt6"}

\* the texts a user types into the pattern field
PatternTexts ==
    { <<>>, <<" ">>, <<"_", " ">> }

\* the texts a user types into the replacement field
ReplaceTexts ==
    { <<>>, <<"_">>, <<"/", "x">> }

\* FileRenamerApp.update_preview (qt6): one line per file of the working set
UpdatePreview(fileList, pattern, replace) ==
    [i \in 1..Len(fileList) |->
        LET filename == Basename(fileList[i])
        IN  IF Contains(pattern, filename)
            THEN [filename |-> filename, change |-> TRUE,
                  new_name |-> Replace(filename, pattern, replace)]
            ELSE [filename |-> filename, change |-> FALSE,
                  new_name |-> <<>>]]

\* the preview after a handler that refreshes it; renamer_dnd.py has none
Preview(fileList, pattern, replace) ==
    IF variant = "qt6" THEN UpdatePreview(fileList, pattern, replace)
    ELSE <<>>

\* dropEvent without the test `file_path not in self.files`
AcceptsKnown(fileList, fs, file_path) == IsFile(fs, file_path)

\* the test of dropEvent that lets a dropped path into the working set
Accepts(fileList, fs, file_path) ==
    IsFile(fs, file_path) /\ file_path \notin Range(fileList)

RECURSIVE DropLoop(_, _, _)
\* the loop of dropEvent: self.files after the URLs of one drop
DropLoop(urls, fileList, fs) ==
    IF urls = <<>> THEN fileList
    ELSE IF Accepts(fileList, fs, Head(urls))
         THEN DropLoop(Tail(urls), Append(fileList, Head(urls)), fs)
         ELSE DropLoop(Tail(urls), fileList, fs)

\* the paths a drop may carry: the files on disk, a directory, a file that
\* another process has deleted
DropPaths == fs_files \cup {SubDir} \cup Removable

UrlLists == UNION {[1..n -> DropPaths] : n \in 0..MaxUrls}

\* dropEvent: new files of the drop join the working set and the list
\* widget, the counter is refreshed, and qt6 refreshes the preview
DropEvent(urls) ==
    /\ IsGui
    /\ LET newFiles == DropLoop(urls, files, fs_files)
       IN  /\ files' = newFiles
           /\ items' = items \o SubSeq(newFiles, Len(files) + 1, Len(newFiles))
           /\ file_count_label' = Len(newFiles)
           /\ preview_area' =
                 IF newFiles # files
                 THEN Preview(newFiles, pattern_input, replace_input)
                 ELSE preview_area
    /\ UNCHANGED <<pattern_input, replace_input, log_output>>
    /\ UNCHANGED <<envVars, fs_files, batchVars, calls, rerun>>

\* pattern_input.textChanged
SetPattern(text) ==
    /\ IsGui
    /\ text # pattern_input
    /\ pattern_input' = text
    /\ preview_area' = Preview(files, text, replace_input)
    /\ UNCHANGED <<files, items, file_count_label, replace_input, log_output>>
    /\ UNCHANGED <<envVars, fs_files, batchVars, calls, rerun>>

\* replace_input.textChanged
SetReplace(text) ==
    /\ IsGui
    /\ text # replace_input
    /\ replace_input' = text
    /\ preview_area' = Preview(files, pattern_input, text)
    /\ UNCHANGED <<files, items, file_count_label, pattern_input, log_output>>
    /\ UNCHANGED <<envVars, fs_files, batchVars, calls, rerun>>

\* FileRenamerApp.clear_files (the Cancel button)
ClearFiles ==
    /\ IsGui
    /\ files' = <<>>
    /\ items' = <<>>
    /\ file_count_label' = 0
    /\ preview_area' = Preview(<<>>, pattern_input, replace_input)
    /\ UNCHANGED <<pattern_input, replace_input, log_output>>
    /\ UNCHANGED <<envVars, fs_files, batchVars, calls, rerun>>

\* what a rename loop has done so far
Acc(fs, lines, made, count, skipped, seen) ==
    [fs |-> fs, lines |-> lines, calls |-> made, count |-> count,
     skipped |-> skipped, seen |-> seen]

\* the GUI loop's try/except calling os.rename a second time after an error
GuiTryRenameAgain(acc, file_path, filename, new_filename, new_file_path) ==
    LET r == OsRename(acc.fs, file_path, new_file_path)
    IN  IF r.ok
        THEN Acc(r.fs,
                 Append(acc.lines,
                        Line("Renamed", filename, new_filename, "", 0)),
                 Append(acc.calls, Call(file_path, new_file_path, TRUE)),
                 acc.count + 1, acc.skipped, acc.seen)
        ELSE Acc(acc.fs,
                 Append(acc.lines, Line("Failed", filename, <<>>, r.err, 0)),
                 acc.calls \o <<Call(file_path, new_file_path, FALSE),
                                Call(file_path, new_file_path, FALSE)>>,
                 acc.count, acc.skipped, acc.seen)

\* the try/except around os.rename in the GUI loop
GuiTryRename(acc, file_path, filename, new_filename, new_file_path) ==
    LET r == OsRename(acc.fs, file_path, new_file_path)
    IN  IF r.ok
        THEN Acc(r.fs,
                 Append(acc.lines,
                        Line("Renamed", filename, new_filename, "", 0)),
                 Append(acc.calls, Call(file_path, new_file_path, TRUE)),
                 acc.count + 1, acc.skipped, acc.seen)
        ELSE Acc(acc.fs,
                 Append(acc.lines, Line("Failed", filename, <<>>, r.err, 0)),
                 Append(acc.calls, Call(file_path, new_file_path, FALSE)),
                 acc.count, acc.skipped, acc.seen)

\* the body of the GUI loop without its test `if pattern in filename`
GuiRenameAny(acc, file_path, pattern, replace) ==
    LET folder == Dirname(file_path)
        filename == Basename(file_path)
        new_filename == Replace(filename, pattern, replace)
        new_file_path == Join(folder, new_filename)
    IN  GuiTryRename(acc, file_path, filename, new_filename, new_file_path)

\* one pass of the body of `for file_path in files`
GuiRenameOne(acc, file_path, pattern, replace) ==
    LET folder == Dirname(file_path)
        filename == Basename(file_path)
    IN  IF Contains(pattern, filename)
        THEN LET new_filename == Replace(filename, pattern, replace)
                 new_file_path == Join(folder, new_filename)
             IN  GuiTryRename(acc, file_path, filename, new_filename,
                              new_file_path)
        ELSE acc

RECURSIVE GuiRenameLoop(_, _, _, _)
\* `for file_path in files`
GuiRenameLoop(fileList, pattern, replace, acc) ==
    IF fileList = <<>> THEN acc
    ELSE GuiRenameLoop(Tail(fileList), pattern, replace,
                       GuiRenameOne(acc, Head(fileList), pattern, replace))

\* rename_files without its test `if not pattern`
RejectsNone(pattern) == FALSE

\* the pattern rename_files works with, and whether it lets the run start
PatternOf(text) == Strip(text)
Rejected(pattern) == pattern = <<>>

\* rename_files without its closing clear_files()
KeepsFiles(fileList) == fileList

\* what rename_files leaves in the working set after its loop
AfterProcessing(fileList) == <<>>

\* FileRenamerApp.rename_files (the Process button)
RenameFiles ==
    /\ IsGui
    /\ LET pattern == PatternOf(pattern_input)
           replace == Strip(replace_input)
           NewPath(p) ==
               IF Contains(pattern, Basename(p))
               THEN Join(Dirname(p), Replace(Basename(p), pattern, replace))
               ELSE p
       IN  IF files = <<>>
           THEN /\ log_output' = <<Line("NoFiles", <<>>, <<>>, "", 0)>>
                /\ calls' = <<>>
                /\ rerun' = {}
                /\ UNCHANGED <<files, items, file_count_label, preview_area,
                               fs_files>>
           ELSE IF Rejected(pattern)
           THEN /\ log_output' = <<Line("EmptyPattern", <<>>, <<>>, "", 0)>>
                /\ calls' = <<>>
                /\ rerun' = {}
                /\ UNCHANGED <<files, items, file_count_label, preview_area,
                               fs_files>>
           ELSE LET acc == GuiRenameLoop(files, pattern, replace,
                               Acc(fs_files, <<>>, <<>>, 0, 0, <<>>))
                    left == AfterProcessing(files)
                IN  /\ fs_files' = acc.fs
                    /\ log_output' =
                          acc.lines
                          \o <<Line("Summary", <<>>, <<>>, "", acc.count)>>
                    /\ calls' = acc.calls
                    /\ rerun' = Rerun(calls, files,
                                     [p \in {c.src : c \in Range(calls)}
                                        |-> NewPath(p)])
                    /\ files' = left
                    /\ items' = left
                    /\ file_count_label' = Len(left)
                    /\ preview_area' =
                          Preview(left, pattern_input, replace_input)
    /\ UNCHANGED <<pattern_input, replace_input>>
    /\ UNCHANGED <<envVars, batchVars>>

\* another process deletes a file of the working set
ExternalRemove(p) ==
    /\ IsGui
    /\ p \in fs_files
    /\ p \in Range(files)
    /\ p \in Removable
    /\ fs_files' = fs_files \ {p}
    /\ UNCHANGED <<envVars, guiVars, batchVars, calls, rerun>>

(***************************************************************************)
(* The batch script.                                                       *)
(***************************************************************************)
\* a rule of the mapping: `old_pattern, new_pattern`
Rule(old, new) == [old |-> old, new |-> new]

\* The rule mappings explored, each in its insertion order.  patterns is
\* what line 104 binds; the empty mapping is also what load_rename_patterns
\* returns when reading the rule file raises.
RuleSets ==
    { <<>>,
      <<Rule(<<>>, <<"x">>)>>,
      <<Rule(<<"_", "b">>, <<"b">>)>>,
      <<Rule(<<"_">>, <<>>)>>,
      <<Rule(<<"_">>, <<"/", "x">>)>>,
      <<Rule(<<"_">>, <<"x">>), Rule(<<"x", "b">>, <<"c">>)>>,
      <<Rule(<<"_">>, <<"x">>), Rule(<<"x">>, <<"_">>)>> }

RECURSIVE ApplyFirstPattern(_, _)
\* the loop over the rules leaving at the first rule that matches
ApplyFirstPattern(new_file_name, pats) ==
    IF pats = <<>> THEN new_file_name
    ELSE IF Contains(Head(pats).old, new_file_name)
         THEN Replace(new_file_name, Head(pats).old, Head(pats).new)
         ELSE ApplyFirstPattern(new_file_name, Tail(pats))

RECURSIVE ApplyPatterns(_, _)
\* `for old_pattern, new_pattern in patterns.items()`
ApplyPatterns(new_file_name, pats) ==
    IF pats = <<>> THEN new_file_name
    ELSE LET old_pattern == Head(pats).old
             new_pattern == Head(pats).new
         IN  IF Contains(old_pattern, new_file_name)
             THEN ApplyPatterns(
                      Replace(new_file_name, old_pattern, new_pattern),
                      Tail(pats))
             ELSE ApplyPatterns(new_file_name, Tail(pats))

\* the order of characters in file names
Alphabet ==
    <<" ", ".", "/", "_", "a", "b", "c", "g", "n", "p", "t", "x">>
Rank(c) == CHOOSE i \in 1..Len(Alphabet) : Alphabet[i] = c

RECURSIVE NameLeq(_, _)
NameLeq(a, b) ==
    IF a = <<>> THEN TRUE
    ELSE IF b = <<>> THEN FALSE
    ELSE IF Head(a) = Head(b) THEN NameLeq(Tail(a), Tail(b))
    ELSE Rank(Head(a)) < Rank(Head(b))

RECURSIVE Sorted(_, _)
\* the names of S in ascending order, or in descending order
Sorted(S, desc) ==
    IF S = {} THEN <<>>
    ELSE LET m == CHOOSE x \in S :
                    \A y \in S : IF desc THEN NameLeq(y, x) ELSE NameLeq(x, y)
         IN  <<m>> \o Sorted(S \ {m}, desc)

\* the `files` os.walk yields for root: the names of its regular files
ListDir(fs, root) ==
    Sorted({Basename(p) : p \in {q \in fs : Dirname(q) = root}}, scan_desc)

\* the directories os.walk(SOURCE_DIRECTORY) visits, top down
WalkDirs == <<SourceDir, SubDir>>

\* the if/else on old_path != new_path with its try/except
BatchTryRename(acc, file, old_path, new_file_name, new_path) ==
    IF old_path # new_path
    THEN LET r == OsRename(acc.fs, old_path, new_path)
         IN  IF r.ok
             THEN Acc(r.fs,
                      Append(acc.lines,
                             Line("Renamed", file, new_file_name, "", 0)),
                      Append(acc.calls, Call(old_path, new_path, TRUE)),
                      acc.count + 1, acc.skipped, acc.seen)
             ELSE Acc(acc.fs,
                      Append(acc.lines, Line("Failed", file, <<>>, r.err, 0)),
                      Append(acc.calls, Call(old_path, new_path, FALSE)),
                      acc.count, acc.skipped, acc.seen)
    ELSE Acc(acc.fs,
             Append(acc.lines, Line("Skipped", file, <<>>, "", 0)),
             acc.calls, acc.count, acc.skipped + 1, acc.seen)

\* one pass of the body of `for file in files`
BatchRenameOne(acc, root, file, pats) ==
    IF EndsWith(file, PNG)
    THEN LET old_path == Join(root, file)
             new_file_name == ApplyPatterns(file, pats)
             new_path == Join(root, new_file_name)
             entered == [acc EXCEPT !.seen = Append(acc.seen, old_path)]
         IN  BatchTryRename(entered, file, old_path, new_file_name, new_path)
    ELSE acc

RECURSIVE BatchFileLoop(_, _, _, _)
\* `for file in files`
BatchFileLoop(names, root, pats, acc) ==
    IF names = <<>> THEN acc
    ELSE BatchFileLoop(Tail(names), root, pats,
                       BatchRenameOne(acc, root, Head(names), pats))

RECURSIVE BatchWalk(_, _, _)
\* `for root, _, files in os.walk(SOURCE_DIRECTORY)`: a directory is listed
\* when the walk reaches it
BatchWalk(roots, pats, acc) ==
    IF roots = <<>> THEN acc
    ELSE BatchWalk(Tail(roots), pats,
                   BatchFileLoop(ListDir(acc.fs, Head(roots)), Head(roots),
                                 pats, acc))

\* rename_files(): one run of the script
BatchRenameFiles ==
    /\ variant = "batch"
    /\ LET acc == BatchWalk(WalkDirs, patterns,
                            Acc(fs_files, <<>>, <<>>, 0, 0, <<>>))
           NewPath(p) == Join(Dirname(p), ApplyPatterns(Basename(p), patterns))
       IN  /\ fs_files' = acc.fs
           /\ log' = acc.lines
           /\ rename_count' = acc.count
           /\ skipped_count' = acc.skipped
           /\ calls' = acc.calls
           /\ visited' = acc.seen
           /\ rerun' = Rerun(calls, acc.seen,
                            [p \in {c.src : c \in Range(calls)}
                               |-> NewPath(p)])
    /\ UNCHANGED <<patterns, scan_desc>>
    /\ UNCHANGED <<envVars, guiVars>>

(***************************************************************************)
(* The specification.                                                      *)
(***************************************************************************)
Init ==
    /\ variant \in {"qt5", "qt6", "batch"}
    /\ os_name \in {"posix", "nt"}
    /\ fs_files = InitFiles(variant)
    /\ files = <<>>
    /\ items = <<>>
    /\ file_count_label = 0
    /\ pattern_input = <<>>
    /\ replace_input = <<>>
    /\ preview_area = <<>>
    /\ log_output = <<>>
    /\ patterns \in (IF variant = "batch" THEN RuleSets ELSE {<<>>})
    /\ scan_desc \in (IF variant = "batch" THEN BOOLEAN ELSE {FALSE})
    /\ log = <<>>
    /\ rename_count = 0
    /\ skipped_count = 0
    /\ calls = <<>>
    /\ visited = <<>>
    /\ rerun = {}

Next ==
    \/ \E urls \in UrlLists : DropEvent(urls)
    \/ \E text \in PatternTexts : SetPattern(text)
    \/ \E text \in ReplaceTexts : SetReplace(text)
    \/ RenameFiles
    \/ ClearFiles
    \/ \E p \in fs_files : ExternalRemove(p)
    \/ BatchRenameFiles

Spec == Init /\ [][Next]_vars

(***************************************************************************)
(* Rule application on its own: one file, and the rule drawn from every    *)
(* short string over two letters, or taken from the documented examples.   *)
(* The actions are the handlers above; the text fields stay as typed.      *)
(***************************************************************************)
\* longest file stem drawn
MaxStem == 3
\* longest file name a run starts from
MaxName == 18

FnChars == {"a", "b"}
Stems == UNION {[1..n -> FnChars] : n \in 1..MaxStem}

FnMatches == { <<"a">>, <<"b">>, <<"a", "b">>, <<"b", "a">>, <<"a", "a">> }
FnReplacements == { <<>>, <<"a">>, <<"b">>, <<"a", "b">> }
FnRules == {Rule(m, r) : m \in FnMatches, r \in FnReplacements}

\* mappings of one rule, and of two rules with different match strings
FnRuleSets ==
    {<<r>> : r \in FnRules}
    \cup {p \in FnRules \X FnRules : p[1].old # p[2].old}

\* part_BaseColor.png with the rules of the rule file's documentation
PartBaseColor ==
    <<"p", "a", "r", "t", "_", "B", "a", "s", "e", "C", "o", "l", "o", "r">>
    \o PNG
PartCol == <<"p", "a", "r", "t", "_", "C", "O", "L">> \o PNG
ExampleRules ==
    << Rule(<<"_", "B", "a", "s", "e", "C", "o", "l", "o", "r">> \o PNG,
            <<"_", "C", "O", "L">> \o PNG),
       Rule(<<"_", "M", "e", "t", "a", "l", "l", "i", "c">> \o PNG,
            <<"_", "M", "E", "T", "A", "L">> \o PNG) >>

\* wood_Diffuse.png and wood_Normal.png with the rule (_Diffuse, _COL)
WoodDiffuse ==
    <<"w", "o", "o", "d", "_", "D", "i", "f", "f", "u", "s", "e">> \o PNG
WoodNormal ==
    <<"w", "o", "o", "d", "_", "N", "o", "r", "m", "a", "l">> \o PNG
WoodCol == <<"w", "o", "o", "d", "_", "C", "O", "L">> \o PNG
ExampleMatch == <<"_", "D", "i", "f", "f", "u", "s", "e">>
ExampleReplacement == <<"_", "C", "O", "L">>

\* the directory of the one file; its name holds a letter of FnChars
FnDir == SubDir

InitFn ==
    /\ variant \in {"qt5", "qt6", "batch"}
    /\ os_name = "posix"
    /\ \/ /\ \E stem \in Stems : fs_files = {Join(FnDir, stem \o PNG)}
          /\ IF variant = "batch"
             THEN /\ patterns \in FnRuleSets
                  /\ pattern_input = <<>>
                  /\ replace_input = <<>>
             ELSE /\ patterns = <<>>
                  /\ pattern_input \in FnMatches
                  /\ replace_input \in FnReplacements
       \/ /\ variant = "batch"
          /\ fs_files = {Join(FnDir, PartBaseColor)}
          /\ patterns = ExampleRules
          /\ pattern_input = <<>>
          /\ replace_input = <<>>
       \/ /\ variant # "batch"
          /\ fs_files = {Join(FnDir, WoodDiffuse), Join(FnDir, WoodNormal)}
          /\ patterns = <<>>
          /\ pattern_input = ExampleMatch
          /\ replace_input = ExampleReplacement
    /\ files = <<>>
    /\ items = <<>>
    /\ file_count_label = 0
    /\ preview_area = <<>>
    /\ log_output = <<>>
    /\ scan_desc = FALSE
    /\ log = <<>>
    /\ rename_count = 0
    /\ skipped_count = 0
    /\ calls = <<>>
    /\ visited = <<>>
    /\ rerun = {}

\* rules whose replacement holds their match string lengthen a name at
\* every run: the runs explored stop at names of MaxName characters
NamesFit == \A p \in fs_files : Len(Basename(p)) <= MaxName

NextFn ==
    \/ \E urls \in UrlLists : DropEvent(urls)
    \/ NamesFit /\ RenameFiles
    \/ NamesFit /\ BatchRenameFiles

SpecFn == InitFn /\ [][NextFn]_vars

(***************************************************************************)
(* The claims.                                                             *)
(***************************************************************************)
\* the outcome lines among lines, in order
Outcomes(lines) == SelectSeq(lines, LAMBDA l : l.kind \in OutcomeKinds)

\* the k-th smallest number of the set S
Nth(S, k) == CHOOSE i \in S : Cardinality({j \in S : j <= i}) = k

\* the entries of s at the indices where Keep holds, in order
Pick(s, Keep(_)) ==
    LET at == {i \in 1..Len(s) : Keep(i)}
    IN  [k \in 1..Cardinality(at) |-> s[Nth(at, k)]]

NoDuplicates(s) == \A i, j \in 1..Len(s) : s[i] = s[j] => i = j

\* C1: a run whose rule set holds a rule with an empty match string (GUI:
\* the pattern field is empty after trimming; batch: a rule of the mapping
\* has an empty first column) is rejected: it logs no Renamed, Skipped or
\* Failed outcome, calls os.rename for no file and leaves every file as it
\* was.
C1_EmptyMatchRun ==
    \/ RenameFiles /\ Strip(pattern_input) = <<>>
    \/ BatchRenameFiles /\ \E i \in 1..Len(patterns) : patterns[i].old = <<>>
C2_SameNameSkipped ==
    [][/\ RenameFiles =>
            \A i \in 1..Len(files) :
                LET name == Basename(files[i])
                    new == Replace(name, Strip(pattern_input),
                                   Strip(replace_input))
                IN  new = name =>
                      /\ \A k \in 1..Len(calls') : calls'[k].src # files[i]
                      /\ \A k \in 1..Len(log_output') :
                            ~ /\ log_output'[k].kind = "Renamed"
                              /\ log_output'[k].old = name
                              /\ log_output'[k].new = new
       /\ BatchRenameFiles =>
            \A i \in 1..Len(visited') :
                LET name == Basename(visited'[i])
                IN  ApplyPatterns(name, patterns) = name =>
                      /\ \A k \in 1..Len(calls') : calls'[k].src # visited'[i]
                      /\ log'[i].kind = "Skipped"]_vars

\* C3: a run that passes validation logs exactly one outcome line for each
\* candidate, in the candidates' order (GUI: the working set; batch: the
\* .png files the walk hands to the loop).
C3_LinesFor(lines, cands) ==
    LET o == Outcomes(lines)
    IN  /\ Len(o) = Len(cands)
        /\ \A i \in 1..Len(cands) : o[i].old = Basename(cands[i])
C3_OneOutcomeEach ==
    [][/\ (RenameFiles /\ files # <<>> /\ Strip(pattern_input) # <<>>) =>
             C3_LinesFor(log_output', files)
       /\ BatchRenameFiles => C3_LinesFor(log', visited')]_vars

\* C4: a failed os.rename is reported as the "Failed" line of its candidate
\* and the handler runs to its end; the run calls os.rename once, in
\* order, for every candidate it has to rename, whether earlier calls
\* failed or not; and the files afterwards are the files before with every
\* successful call applied and no call undone.
C4_Applied(fs, made) ==
    LET after[k \in 0..Len(made)] ==
            IF k = 0 THEN fs
            ELSE IF made[k].ok
                 THEN (after[k - 1] \ {made[k].src})
                          \cup {Collapse(made[k].dst)}
                 ELSE after[k - 1]
    IN  after[Len(made)]
C4_Reported(lines, made) ==
    LET tried == SelectSeq(lines, LAMBDA l : l.kind \in {"Renamed", "Failed"})
    IN  /\ Len(tried) = Len(made)
        /\ \A k \in 1..Len(made) :
              /\ tried[k].old = Basename(made[k].src)
              /\ tried[k].kind = IF made[k].ok THEN "Renamed" ELSE "Failed"
C4_FailureIsContained ==
    [][/\ (RenameFiles /\ files # <<>> /\ Strip(pattern_input) # <<>>) =>
             /\ [k \in 1..Len(calls') |-> calls'[k].src]
                   = Pick(files, LAMBDA i : Contains(Strip(pattern_input),
                                                     Basename(files[i])))
             /\ C4_Reported(log_output', calls')
             /\ log_output'[Len(log_output')].kind = "Summary"
             /\ fs_files' = C4_Applied(fs_files, calls')
       /\ BatchRenameFiles =>
             /\ [k \in 1..Len(calls') |-> calls'[k].src]
                   = Pick(visited',
                          LAMBDA i : ApplyPatterns(Basename(visited'[i]),
                                                   patterns)
                                        # Basename(visited'[i]))
             /\ C4_Reported(log', calls')
             /\ Len(log') = Len(visited')
             /\ fs_files' = C4_Applied(fs_files, calls')]_vars
C4_Witness ==
    /\ Len(calls) = 2
    /\ ~ calls[1].ok
    /\ calls[2].ok
    /\ calls[2].dst # calls[2].src
    /\ Collapse(calls[2].dst) \in fs_files

\* the positions of s where old starts
Occurrences(s, old) ==
    {i \in 1..(Len(s) - Len(old) + 1) : SubSeq(s, i, i + Len(old) - 1) = old}

\* s with the occurrences of a non-empty old that a scan from the left
\* takes (an occurrence is taken unless it overlaps one taken before it)
\* replaced by new
GreedyReplace(s, old, new) ==
    LET n == Len(old)
        taken[i \in 1..Len(s)] ==
            /\ i \in Occurrences(s, old)
            /\ \A j \in 1..(i - 1) : j + n > i => ~ taken[j]
        from[i \in 1..(Len(s) + 1)] ==
            IF i > Len(s) THEN <<>>
            ELSE IF taken[i] THEN new \o from[i + n]
            ELSE <<s[i]>> \o from[i + 1]
    IN  from[1]

\* C5: the batch script rewrites a name by its rules one after another in
\* the mapping's order: each rule whose match string occurs in the name as
\* rewritten so far replaces its occurrences there, each other rule leaves
\* the name as it is; the result is the target of the file's os.rename
\* call, in the file's own directory, and the new name of its "Renamed"
\* line, and a file whose name comes out unchanged is skipped.  The
\* documented rules turn part_BaseColor.png into part_COL.png.
C5_Chain(name, pats) ==
    LET cur[k \in 0..Len(pats)] ==
            IF k = 0 THEN name
            ELSE IF Occurrences(cur[k - 1], pats[k].old) # {}
                 THEN GreedyReplace(cur[k - 1], pats[k].old, pats[k].new)
                 ELSE cur[k - 1]
    IN  cur[Len(pats)]
C6_ReplaceAll ==
    [][(RenameFiles /\ files # <<>> /\ Strip(pattern_input) # <<>>) =>
          LET pattern == Strip(pattern_input)
              replace == Strip(replace_input)
              hit == {i \in 1..Len(files) :
                        Occurrences(Basename(files[i]), pattern) # {}}
          IN  /\ Len(calls') = Cardinality(hit)
              /\ \A i \in hit :
                    LET name == Basename(files[i])
                        new == GreedyReplace(name, pattern, replace)
                        dst == Dirname(files[i]) \o <<Sep>> \o new
                    IN  \E ok \in BOOLEAN :
                           /\ Call(files[i], dst, ok) \in Range(calls')
                           /\ ok => Line("Renamed", name, new, "", 0)
                                       \in Range(log_output')
              /\ \A i \in (1..Len(files)) \ hit :
                    \A k \in 1..Len(calls') : calls'[k].src # files[i]
              /\ (pattern = ExampleMatch /\ replace = ExampleReplacement
                    /\ Range(files) = {Join(FnDir, WoodDiffuse),
                                       Join(FnDir, WoodNormal)}) =>
                    fs_files' = {Join(FnDir, WoodCol),
                                 Join(FnDir, WoodNormal)}]_vars
C6_Witness ==
    /\ IsGui
    /\ pattern_input = <<"a", "a">>
    /\ replace_input = <<"b">>
    /\ calls = <<Call(FnDir \o <<"/", "a", "a", "a">> \o PNG,
                      FnDir \o <<"/", "b", "a">> \o PNG, TRUE)>>
    /\ fs_files = {FnDir \o <<"/", "b", "a">> \o PNG}

\* C7: a file that the previous run renamed, whose old name held the match
\* string once and whose new name does not hold it, is skipped by the next
\* run with the same rule: the run makes no os.rename call for it, reports
\* neither a rename nor a failure of it (the batch script reports it
\* skipped) and the file keeps its name.
C7_Match == IF IsGui THEN Strip(pattern_input) ELSE patterns[1].old
C7_Covers(r) ==
    /\ IsGui \/ Len(patterns) = 1
    /\ Cardinality(Occurrences(Basename(r.old), C7_Match)) = 1
    /\ ~ Contains(C7_Match, Basename(r.new))
C7_SecondRunSkips ==
    [][(RenameFiles \/ BatchRenameFiles) =>
          \A r \in rerun' :
              C7_Covers(r) =>
                 /\ r.new \in fs_files'
                 /\ \A k \in 1..Len(calls') : calls'[k].src # r.new
                 /\ \A k \in 1..Len(log_output') :
                       log_output'[k].kind \in {"Renamed", "Failed"}
                          => log_output'[k].old # Basename(r.new)
                 /\ ~ IsGui =>
                       \E k \in 1..Len(log') :
                          /\ visited'[k] = r.new
                          /\ log'[k].kind = "Skipped"]_vars
C7_Witness ==
    \E r \in rerun :
        /\ C7_Covers(r)
        /\ r.new \in fs_files
        /\ r.old \notin fs_files

\* C8: the working set never holds a path twice and the counter shows its
\* size; a step that changes the working set either empties it or appends
\* to it, keeping what it held in place, and every appended path is a
\* regular file at that moment.
C8_WorkingSet ==
    /\ [](NoDuplicates(files) /\ file_count_label = Len(files))
    /\ [][files' # files =>
             \/ files' = <<>>
             \/ /\ Len(files') > Len(files)
                /\ SubSeq(files', 1, Len(files)) = files
                /\ fs_files' = fs_files
                /\ \A i \in (Len(files) + 1)..Len(files') :
                      files'[i] \in fs_files]_vars
C8_Witness ==
    /\ files = <<FileB, FileA>>
    /\ file_count_label = 2
    /\ FileB \notin fs_files

\* C9: a Process click that runs the rename loop leaves the working set,
\* the list widget and the counter empty, whatever the outcomes were; a
\* Process click on an empty working set reports that there are no files
\* and renames nothing.
C9_ClearedAfterProcessing ==
    [][RenameFiles =>
          IF files # <<>> /\ Strip(pattern_input) # <<>>
          THEN files' = <<>> /\ items' = <<>> /\ file_count_label' = 0
          ELSE files = <<>> =>
                 /\ log_output' = <<Line("NoFiles", <<>>, <<>>, "", 0)>>
                 /\ calls' = <<>>
                 /\ fs_files' = fs_files]_vars
C9_Witness ==
    /\ files = <<>>
    /\ \E i, j \in 1..Len(log_output) :
          log_output[i].kind = "Renamed" /\ log_output[j].kind = "Failed"
    /\ log_output[Len(log_output)].kind = "Summary"

\* C10: every os.rename call names a target in the directory of its source.
C10_SameDirectory ==
    \A i \in 1..Len(calls) : Dirname(calls[i].dst) = Dirname(calls[i].src)

\* C11: in the Qt6 program the preview shown when Process is clicked tells
\* what Process does: for a file the preview shows as renamed to a new
\* name, Process calls os.rename with that name in the file's directory as
\* the target, and for a file shown as "(no change)" it calls os.rename
\* not at all.
C11_PreviewAgrees ==
    [][(RenameFiles /\ variant = "qt6") =>
          /\ Len(preview_area) = Len(files)
          /\ \A i \in 1..Len(files) :
                IF preview_area[i].change
                THEN \E k \in 1..Len(calls') :
                        /\ calls'[k].src = files[i]
                        /\ calls'[k].dst =
                              Dirname(files[i]) \o <<Sep>>
                                 \o preview_area[i].new_name
                ELSE \A k \in 1..Len(calls') : calls'[k].src # files[i]]_vars

C13_RejectedChangesNothing ==
    [][(RenameFiles /\ (files = <<>> \/ Strip(pattern_input) = <<>>)) =>
          /\ Len(log_output') = 1
          /\ log_output'[1].kind =
                IF files = <<>> THEN "NoFiles" ELSE "EmptyPattern"
          /\ calls' = <<>>
          /\ UNCHANGED <<files, items, file_count_label, pattern_input,
                         replace_input, preview_area, fs_files>>]_vars
C13_Witness ==
    /\ files = <<FileB, FileA>>
    /\ items = files
    /\ Strip(pattern_input) = <<>>
    /\ log_output = <<Line("EmptyPattern", <<>>, <<>>, "", 0)>>
    /\ fs_files = {FileA, FileB}

\* C14: a run destroys no file: there are as many files after it as before,
\* and an os.rename call whose target is occupied by another file fails.
C14_Occupied(fs, made) ==
    LET before[k \in 1..Len(made)] ==
            IF k = 1 THEN fs ELSE C4_Applied(fs, SubSeq(made, 1, k - 1))
    IN  {k \in 1..Len(made) :
           /\ made[k].src \in before[k]
           /\ Collapse(made[k].dst) \in before[k]
           /\ Collapse(made[k].dst) # made[k].src}
C14_NoFileDestroyed ==
    [][(RenameFiles \/ BatchRenameFiles) =>
          /\ Cardinality(fs_files') = Cardinality(fs_files)
          /\ \A k \in C14_Occupied(fs_files, calls') : ~ calls'[k].ok]_vars

====
